---------------------------- MODULE Spec2Model ----------------------------
(***************************************************************************)
(* Model of src/main.cpp: the region allocator (without_raii::Allocator),  *)
(* the fixed-capacity without_raii::Vector, the two Node types, and the    *)
(* shared build_tree / build_subtree / traverse / test / main algorithms.  *)
(*                                                                         *)
(* Addresses are natural numbers, nullptr is 0.  One allocate_block pass   *)
(* (one execution of the function body; the retry at line 110 is a new    *)
(* pass) is one step, so that retries can be counted.                      *)
(***************************************************************************)
EXTENDS Integers, Sequences, FiniteSets, TLC

VARIABLES
    N_CHILDREN,                     \* main.cpp:13, drawn from 1..MaxChildren
    TREE_DEPTH,                     \* main.cpp:14, drawn from 0..MaxDepth
    NDEBUG,                         \* whether assert() is compiled out
    pages,                          \* Allocator::pages (base address of each Page)
    active_page_first_free_byte,    \* Allocator field, 0 is nullptr
    active_page_bytes_left,         \* Allocator field
    pc,                             \* position of the single thread
    ret,                            \* where the running allocate_block returns to
    req,                            \* arguments of the running allocate_block
    depth,                          \* recursion depth of the running allocate_block
    result,                         \* value returned by the last allocate_block
    entry,                          \* allocator fields when the call was entered
    blocks,                         \* every block returned so far, in order
    n_calls,                        \* client calls issued (allocator/vector drivers)
    terminated,                     \* "no", "terminate" (line 114/257), "assert" (line 151)
    nodes,                          \* without_raii::Node objects by address
    slots,                          \* pointer-sized words written by Vector::push_back
    heap,                           \* with_raii::Node objects (1 is the root)
    n_nodes_created,                \* g_stat.n_nodes_created
    strategy,                       \* template arguments of the running test<>()
    stack,                          \* build_subtree activation records
    new_node,                       \* without_raii::Node being constructed
    checksum,                       \* local of test()
    reports,                        \* Reports returned by test(), by strategy
    vec,                            \* a stand-alone without_raii::Vector<Node*>
    pushed,                         \* values handed to vec.push_back, in order
    iterated                        \* results of begin()..end() walks over vec

vars == << N_CHILDREN, TREE_DEPTH, NDEBUG, pages, active_page_first_free_byte,
           active_page_bytes_left, pc, ret, req, depth, result, entry, blocks,
           n_calls, terminated, nodes, slots, heap, n_nodes_created, strategy,
           stack, new_node, checksum, reports, vec, pushed, iterated >>

allocVars == << pages, active_page_first_free_byte, active_page_bytes_left >>
callVars  == << ret, req, depth, result, entry, blocks >>
cfgVars   == << N_CHILDREN, TREE_DEPTH, NDEBUG >>
treeVars  == << nodes, slots, heap, n_nodes_created, strategy, stack, new_node,
                checksum, reports >>
vecVars   == << vec, pushed, iterated >>

---------------------------------------------------------------------------
(* Program constants.  The sizes are those of an LP64 build: a Node is a
   Vector (pointer, int, int) and an int, padded to the pointer's alignment. *)

MAX_SMALL_BLOCK_SIZE == 4096
PAGE_SIZE == 65536
PAGE_ALIGN == 1024
CHECKSUM_MOD == 43112609
SIZEOF_NODE == 24
ALIGNOF_NODE == 8
SIZEOF_PTR == 8
ALIGNOF_PTR == 8
NULL == 0

(* Bounds of the model *)

MaxCalls == 3
MaxRetries == 2
MaxChildren == 3
MaxDepth == 3
MaxVecSize == 3
MaxFan == 3

---------------------------------------------------------------------------
(* without_raii::Allocator *)

\* Where operator new may place the n-th Page: any address that is a multiple of
\* the Page alignment and clear of the other pages.  The model gives each page
\* its own window of 2 * PAGE_SIZE bytes and lets it start either on a multiple
\* of PAGE_SIZE or one alignment unit past it.
PageOffsets == {0, PAGE_ALIGN}

FreshPageBases(n) == { n * 2 * PAGE_SIZE + off : off \in PageOffsets }

\* std::align(alignment, size, ptr, space) for a power-of-two alignment: the
\* first address >= ptr that is a multiple of alignment, provided size bytes
\* still fit in space after the padding; ptr and space are left alone otherwise.
std_align(alignment, size, ptr, space) ==
    LET aligned == ((ptr + alignment - 1) \div alignment) * alignment
        padding == aligned - ptr
    IN  IF space < size \/ padding > space - size
        THEN [ok |-> FALSE, ptr |-> ptr, space |-> space]
        ELSE [ok |-> TRUE, ptr |-> aligned, space |-> space - padding]

IsSmallBlock_strict(size) == size < MAX_SMALL_BLOCK_SIZE

\* line 93
IsSmallBlock(size) == size <= MAX_SMALL_BLOCK_SIZE

Carve_no_advance(ptr, space, size) == [first_free |-> ptr, bytes_left |-> space - size]

Carve_keep_bytes_left(ptr, space, size) == [first_free |-> ptr + size, bytes_left |-> space]

\* lines 102-104: the cursor and the byte count after carving size bytes at ptr
Carve(ptr, space, size) == [first_free |-> ptr + size, bytes_left |-> space - size]

\* One execution of the body of allocate_block (lines 93-114).
allocate_block ==
    /\ pc = "allocate_block"
    /\ IF ~IsSmallBlock(req.size)
       THEN \* lines 113-114
            /\ terminated' = "terminate"
            /\ pc' = "terminated"
            /\ UNCHANGED << allocVars, callVars >>
       ELSE \E base \in FreshPageBases(Len(pages) + 1) :
            LET fresh == active_page_first_free_byte = NULL
                pgs   == IF fresh THEN Append(pages, base) ELSE pages
                ptr   == IF fresh THEN base ELSE active_page_first_free_byte
                space == IF fresh THEN PAGE_SIZE ELSE active_page_bytes_left
                al    == std_align(req.alignment, req.size, ptr, space)
                after == Carve(al.ptr, al.space, req.size)
            IN  IF al.ok
                THEN \* lines 102-105
                     /\ pages' = pgs
                     /\ active_page_first_free_byte' = after.first_free
                     /\ active_page_bytes_left' = after.bytes_left
                     /\ result' = al.ptr
                     /\ blocks' = Append(blocks, [addr |-> al.ptr, size |-> req.size,
                                                  alignment |-> req.alignment])
                     /\ pc' = ret
                     /\ UNCHANGED << ret, req, depth, entry, terminated >>
                ELSE \* lines 108-110
                     /\ depth < MaxRetries
                     /\ pages' = pgs
                     /\ active_page_first_free_byte' = NULL
                     /\ active_page_bytes_left' = 0
                     /\ depth' = depth + 1
                     /\ UNCHANGED << pc, ret, req, result, entry, blocks, terminated >>
    /\ UNCHANGED << cfgVars, n_calls, treeVars, vecVars >>

\* The caller's side of a call: the arguments, the return position and a
\* snapshot of the allocator fields.
EnterAllocate(size, alignment, continuation) ==
    /\ req' = [size |-> size, alignment |-> alignment]
    /\ depth' = 0
    /\ ret' = continuation
    /\ entry' = [n_pages |-> Len(pages), first_free |-> active_page_first_free_byte,
                 bytes_left |-> active_page_bytes_left, n_blocks |-> Len(blocks)]
    /\ pc' = "allocate_block"
    /\ UNCHANGED << allocVars, result, blocks, terminated >>

---------------------------------------------------------------------------
(* A client that calls allocate_block with arbitrary arguments *)

AllocSizes == {0, 1, SIZEOF_NODE, MAX_SMALL_BLOCK_SIZE, MAX_SMALL_BLOCK_SIZE + 1}
AllocAlignments == {1, ALIGNOF_NODE, PAGE_SIZE \div 2, PAGE_SIZE}

CallAllocateBlock ==
    /\ pc = "idle"
    /\ n_calls < MaxCalls
    /\ \E size \in AllocSizes, alignment \in AllocAlignments :
           EnterAllocate(size, alignment, "idle")
    /\ n_calls' = n_calls + 1
    /\ UNCHANGED << cfgVars, treeVars, vecVars >>

\* lines 84-86: a freshly constructed Allocator
InitFreshAllocator ==
    /\ pages = << >>
    /\ active_page_first_free_byte = NULL
    /\ active_page_bytes_left = 0

InitNoTree ==
    /\ nodes = << >>
    /\ slots = << >>
    /\ heap = << >>

InitCommon ==
    /\ ret = "idle"
    /\ req = [size |-> 0, alignment |-> 1]
    /\ depth = 0
    /\ result = NULL
    /\ entry = [n_pages |-> 0, first_free |-> NULL, bytes_left |-> 0, n_blocks |-> 0]
    /\ blocks = << >>
    /\ n_calls = 0
    /\ terminated = "no"
    /\ stack = << >>
    /\ new_node = NULL
    /\ checksum = 0
    /\ reports = << >>
    /\ vec = [items |-> NULL, size |-> 0, max_size |-> 0]
    /\ pushed = << >>
    /\ iterated = << >>

InitAllocator ==
    /\ InitCommon
    /\ InitFreshAllocator
    /\ InitNoTree
    /\ n_nodes_created = 0
    /\ pc = "idle"
    /\ strategy = "without_raii"
    /\ N_CHILDREN = 1
    /\ TREE_DEPTH = 0
    /\ NDEBUG = FALSE

NextAllocator == CallAllocateBlock \/ allocate_block

SpecAllocator == InitAllocator /\ [][NextAllocator]_vars

---------------------------------------------------------------------------
(* without_raii::Vector<Node*> *)

\* What a read of a word nobody wrote yields in the model.
GARBAGE == -1

Load(mem, addr) == IF addr \in DOMAIN mem THEN mem[addr] ELSE GARBAGE

Store(mem, addr, x) == [a \in DOMAIN mem \cup {addr} |-> IF a = addr THEN x ELSE mem[a]]

\* line 130, for T = Node*
aligned_item_size == ((SIZEOF_PTR + ALIGNOF_PTR - 1) \div ALIGNOF_PTR) * ALIGNOF_PTR

\* line 144: the size of the block the constructor asks for
VectorBlockSize(max_size) == max_size * aligned_item_size

\* &items[i]
ItemAddress(v, i) == v.items + i * SIZEOF_PTR

\* line 154
begin(v) == v.items

\* line 155
end(v) == v.items + v.size * SIZEOF_PTR

\* The range-for walk from begin() to end(): it dereferences and advances by
\* one element until the iterator equals end().
Elements(v, mem) ==
    [i \in 1..((end(v) - begin(v)) \div SIZEOF_PTR) |->
        Load(mem, begin(v) + (i - 1) * SIZEOF_PTR)]

push_back_preincrement(v, mem, x, ndebug) ==
    [vec |-> [v EXCEPT !.size = v.size + 1],
     slots |-> Store(mem, ItemAddress(v, v.size + 1), x),
     terminated |-> "no"]

\* lines 149-153.  With assert() compiled in, a full vector aborts the process;
\* with NDEBUG the check is gone and the store goes past the block.
push_back(v, mem, x, ndebug) ==
    IF v.size < v.max_size \/ ndebug
    THEN [vec |-> [v EXCEPT !.size = v.size + 1],
          slots |-> Store(mem, ItemAddress(v, v.size), x),
          terminated |-> "no"]
    ELSE [vec |-> v, slots |-> mem, terminated |-> "assert"]

---------------------------------------------------------------------------
(* A client that constructs one Vector, pushes and iterates *)

PushValues == {SIZEOF_PTR, 2 * SIZEOF_PTR}

\* lines 143-146, up to the call of allocate_block
VectorConstruct ==
    /\ pc = "vector_start"
    /\ \E max_size \in 0..MaxVecSize :
           /\ EnterAllocate(VectorBlockSize(max_size), ALIGNOF_PTR, "vector_ctor")
           /\ vec' = [items |-> NULL, size |-> 0, max_size |-> max_size]
    /\ UNCHANGED << cfgVars, n_calls, treeVars, pushed, iterated >>

\* lines 144-146, after allocate_block has returned
VectorConstructed ==
    /\ pc = "vector_ctor"
    /\ vec' = [vec EXCEPT !.items = result, !.size = 0]
    /\ pc' = "vector_ready"
    /\ UNCHANGED << cfgVars, allocVars, callVars, n_calls, terminated, treeVars,
                    pushed, iterated >>

VectorPushBack ==
    /\ pc = "vector_ready"
    /\ n_calls <= MaxVecSize
    /\ \E x \in PushValues :
           LET r == push_back(vec, slots, x, NDEBUG)
           IN  /\ vec' = r.vec
               /\ slots' = r.slots
               /\ terminated' = r.terminated
               /\ pc' = IF r.terminated = "no" THEN "vector_ready" ELSE "terminated"
               /\ pushed' = Append(pushed, x)
    /\ n_calls' = n_calls + 1
    /\ UNCHANGED << cfgVars, allocVars, callVars, nodes, heap, n_nodes_created,
                    strategy, stack, new_node, checksum, reports, iterated >>

VectorIterate ==
    /\ pc = "vector_ready"
    /\ Len(iterated) < 2
    /\ iterated' = Append(iterated, [n_pushed |-> Len(pushed),
                                     elements |-> Elements(vec, slots)])
    /\ UNCHANGED << cfgVars, allocVars, callVars, pc, n_calls, terminated, treeVars,
                    vec, pushed >>

InitVector ==
    /\ InitCommon
    /\ InitFreshAllocator
    /\ InitNoTree
    /\ n_nodes_created = 0
    /\ pc = "vector_start"
    /\ strategy = "without_raii"
    /\ N_CHILDREN = 1
    /\ TREE_DEPTH = 0
    /\ NDEBUG \in BOOLEAN

NextVector == VectorConstruct \/ allocate_block \/ VectorConstructed \/ VectorPushBack
              \/ VectorIterate

SpecVector == InitVector /\ [][NextVector]_vars

---------------------------------------------------------------------------
(* Nodes, build_tree, build_subtree, traverse, test and main *)

\* build_tree's local `root` (line 190) is not in the arena: it lives in test()'s
\* frame, at an address outside every page.
ROOT_ADDR == 64

Root == IF strategy = "without_raii" THEN ROOT_ADDR ELSE 1

WithoutRaiiNodeId_preincrement(count) == count + 1

\* line 162: node_id = g_stat.n_nodes_created++
WithoutRaiiNodeId(count) == count

\* line 63: node_id = g_stat.n_nodes_created++
WithRaiiNodeId(count) == count

\* node.children as the range-for of lines 182 and 200 sees it
Children(n) ==
    IF strategy = "without_raii" THEN Elements(nodes[n].children, slots)
    ELSE heap[n].children

NodeId(n) == IF strategy = "without_raii" THEN nodes[n].node_id ELSE heap[n].node_id

Reduce_wrong_modulus(x) == x % (CHECKSUM_MOD + 1)

\* line 201: % 43112609
Reduce(x) == x % CHECKSUM_MOD

\* lines 197-204
RECURSIVE traverse(_)
traverse(node) ==
    LET c == Children(node)
        RECURSIVE loop(_, _)
        loop(i, sum) ==
            IF i > Len(c) THEN sum
            ELSE loop(i + 1, Reduce(sum + traverse(c[i])))
    IN  loop(1, NodeId(node))

LevelsExhausted_postdecrement(levels_left) == levels_left <= 0

\* line 179: --levels_left <= 0
LevelsExhausted(levels_left) == levels_left - 1 <= 0

Frame(node, levels_left) == [node |-> node, levels_left |-> levels_left,
                             phase |-> "add", i |-> 0]

Top == stack[1]

ReplaceTop(f) == << f >> \o Tail(stack)

\* lines 223-230: g_stat is reset and the Allocator constructed
test_begin ==
    /\ pc \in {"test_without_raii", "test_with_raii"}
    /\ strategy' = IF pc = "test_without_raii" THEN "without_raii" ELSE "with_raii"
    /\ n_nodes_created' = 0
    /\ pages' = << >>
    /\ active_page_first_free_byte' = NULL
    /\ active_page_bytes_left' = 0
    /\ blocks' = << >>
    /\ pc' = "build_tree"
    /\ UNCHANGED << cfgVars, ret, req, depth, result, entry, n_calls, terminated,
                    nodes, slots, heap, stack, new_node, checksum, reports, vecVars >>

\* line 190: Node root(allocator, N_CHILDREN)
build_tree ==
    /\ pc = "build_tree"
    /\ IF strategy = "without_raii"
       THEN \* line 164 runs Vector's constructor first
            /\ new_node' = ROOT_ADDR
            /\ EnterAllocate(VectorBlockSize(N_CHILDREN), ALIGNOF_PTR, "node_ctor")
            /\ UNCHANGED << heap, n_nodes_created, stack >>
       ELSE \* lines 62-65, then line 191
            /\ heap' = << [children |-> << >>, node_id |-> WithRaiiNodeId(n_nodes_created)] >>
            /\ n_nodes_created' = n_nodes_created + 1
            /\ stack' = << Frame(1, TREE_DEPTH) >>
            /\ pc' = "build_subtree"
            /\ UNCHANGED << allocVars, callVars, terminated, new_node >>
    /\ UNCHANGED << cfgVars, n_calls, nodes, slots, strategy, checksum, reports, vecVars >>

\* lines 161-164 once the Vector's block is there: the members are initialised
\* in declaration order, children and then node_id.  The root's constructor
\* returns to build_tree (line 191), any other to add_child (line 168).
node_ctor ==
    /\ pc = "node_ctor"
    /\ nodes' = Store(nodes, new_node,
                      [children |-> [items |-> result, size |-> 0, max_size |-> N_CHILDREN],
                       node_id |-> WithoutRaiiNodeId(n_nodes_created)])
    /\ n_nodes_created' = n_nodes_created + 1
    /\ IF new_node = ROOT_ADDR
       THEN /\ stack' = << Frame(ROOT_ADDR, TREE_DEPTH) >>
            /\ pc' = "build_subtree"
       ELSE /\ pc' = "add_child_push"
            /\ UNCHANGED stack
    /\ UNCHANGED << cfgVars, allocVars, callVars, n_calls, terminated, slots, heap,
                    strategy, new_node, checksum, reports, vecVars >>

\* lines 177-178, one round of the loop
add_child ==
    /\ pc = "build_subtree"
    /\ Top.phase = "add"
    /\ Top.i < N_CHILDREN
    /\ IF strategy = "without_raii"
       THEN \* lines 167, 121
            /\ EnterAllocate(SIZEOF_NODE, ALIGNOF_NODE, "new_object")
            /\ UNCHANGED << heap, n_nodes_created, stack >>
       ELSE \* line 68
            /\ heap' = Append([heap EXCEPT ![Top.node].children = Append(@, Len(heap) + 1)],
                              [children |-> << >>,
                               node_id |-> WithRaiiNodeId(n_nodes_created)])
            /\ n_nodes_created' = n_nodes_created + 1
            /\ stack' = ReplaceTop([Top EXCEPT !.i = @ + 1])
            /\ UNCHANGED << allocVars, callVars, pc, terminated >>
    /\ UNCHANGED << cfgVars, n_calls, nodes, slots, strategy, new_node, checksum,
                    reports, vecVars >>

\* line 122: placement new of the Node in the block of line 121; its
\* constructor starts with the Vector's (lines 164, 144)
new_object ==
    /\ pc = "new_object"
    /\ new_node' = result
    /\ EnterAllocate(VectorBlockSize(N_CHILDREN), ALIGNOF_PTR, "node_ctor")
    /\ UNCHANGED << cfgVars, n_calls, nodes, slots, heap, n_nodes_created, strategy,
                    stack, checksum, reports, vecVars >>

\* line 168
add_child_push ==
    /\ pc = "add_child_push"
    /\ LET r == push_back(nodes[Top.node].children, slots, new_node, NDEBUG)
       IN  /\ nodes' = [nodes EXCEPT ![Top.node].children = r.vec]
           /\ slots' = r.slots
           /\ terminated' = r.terminated
           /\ pc' = IF r.terminated = "no" THEN "build_subtree" ELSE "terminated"
    /\ stack' = ReplaceTop([Top EXCEPT !.i = @ + 1])
    /\ UNCHANGED << cfgVars, allocVars, callVars, n_calls, heap, n_nodes_created,
                    strategy, new_node, checksum, reports, vecVars >>

\* build_subtree returns: to its caller's loop (line 182), or to build_tree and
\* from there to test() (lines 192, 230)
Return ==
    /\ stack' = Tail(stack)
    /\ pc' = IF Len(stack) = 1 THEN "built" ELSE "build_subtree"

\* lines 179-181
levels_check ==
    /\ pc = "build_subtree"
    /\ Top.phase = "add"
    /\ Top.i = N_CHILDREN
    /\ IF LevelsExhausted(Top.levels_left)
       THEN Return
       ELSE /\ stack' = ReplaceTop([Top EXCEPT !.levels_left = @ - 1,
                                                !.phase = "for", !.i = 0])
            /\ UNCHANGED pc
    /\ UNCHANGED << cfgVars, allocVars, callVars, n_calls, terminated, nodes, slots,
                    heap, n_nodes_created, strategy, new_node, checksum, reports,
                    vecVars >>

\* lines 182-184, one round of the loop or its end
for_children ==
    /\ pc = "build_subtree"
    /\ Top.phase = "for"
    /\ IF Top.i < Len(Children(Top.node))
       THEN /\ stack' = << Frame(Children(Top.node)[Top.i + 1], Top.levels_left) >>
                        \o ReplaceTop([Top EXCEPT !.i = @ + 1])
            /\ UNCHANGED pc
       ELSE Return
    /\ UNCHANGED << cfgVars, allocVars, callVars, n_calls, terminated, nodes, slots,
                    heap, n_nodes_created, strategy, new_node, checksum, reports,
                    vecVars >>

\* line 233
Traverse ==
    /\ pc = "built"
    /\ checksum' = traverse(Root)
    /\ pc' = "traversed"
    /\ UNCHANGED << cfgVars, allocVars, callVars, n_calls, terminated, nodes, slots,
                    heap, n_nodes_created, strategy, stack, new_node, reports,
                    vecVars >>

\* lines 236-238: the scope ends, the tree and the Allocator with its pages are
\* destroyed, and the Report is returned to main (lines 250-251)
test_end ==
    /\ pc = "traversed"
    /\ reports' = Append(reports, [strategy |-> strategy, checksum |-> checksum,
                                   n_nodes_created |-> n_nodes_created])
    /\ nodes' = << >>
    /\ slots' = << >>
    /\ heap' = << >>
    /\ pages' = << >>
    /\ active_page_first_free_byte' = NULL
    /\ active_page_bytes_left' = 0
    /\ blocks' = << >>
    /\ pc' = IF strategy = "without_raii" THEN "test_with_raii" ELSE "main_compare"
    /\ UNCHANGED << cfgVars, ret, req, depth, result, entry, n_calls, terminated,
                    n_nodes_created, strategy, stack, new_node, checksum, vecVars >>

\* lines 254-258
main_compare ==
    /\ pc = "main_compare"
    /\ IF \/ reports[1].n_nodes_created # reports[2].n_nodes_created
          \/ reports[1].checksum # reports[2].checksum
       THEN /\ terminated' = "terminate"
            /\ pc' = "terminated"
       ELSE /\ pc' = "done"
            /\ UNCHANGED terminated
    /\ UNCHANGED << cfgVars, allocVars, callVars, n_calls, treeVars, vecVars >>

Init ==
    /\ InitCommon
    /\ InitFreshAllocator
    /\ InitNoTree
    /\ n_nodes_created = 0
    /\ pc = "test_without_raii"
    /\ strategy = "without_raii"
    /\ N_CHILDREN \in 1..MaxChildren
    /\ TREE_DEPTH \in 0..MaxDepth
    /\ NDEBUG \in BOOLEAN

Next == \/ test_begin \/ build_tree \/ allocate_block \/ node_ctor \/ add_child
        \/ new_object \/ add_child_push \/ levels_check \/ for_children
        \/ Traverse \/ test_end \/ main_compare

Spec == Init /\ [][Next]_vars

---------------------------------------------------------------------------
(* traverse applied to trees with the node ids of the shipped configuration *)

N_CHILDREN_SHIPPED == 3
TREE_DEPTH_SHIPPED == 15

RECURSIVE FullTreeSize(_, _)
FullTreeSize(k, d) == IF d = 0 THEN 1 ELSE 1 + k * FullTreeSize(k, d - 1)

\* The largest id main() hands out with N_CHILDREN = 3 and TREE_DEPTH = 15.
LastNodeId == FullTreeSize(N_CHILDREN_SHIPPED, TREE_DEPTH_SHIPPED) - 1

\* The root, the last node above the leaves, and two of the last leaves.
SampleIds == {0, LastNodeId - 9, LastNodeId - 1, LastNodeId}

FirstPage == 2 * PAGE_SIZE

\* The address of the i-th child of a root with fan children, laid out as
\* build_subtree lays it out in a fresh page: the root's Vector block, then for
\* each child its Node followed by its own Vector block.
SampleChildAddr(fan, i) ==
    FirstPage + VectorBlockSize(fan) + (i - 1) * (SIZEOF_NODE + VectorBlockSize(fan))

InitTraverse ==
    /\ InitCommon
    /\ pc = "built"
    /\ strategy \in {"without_raii", "with_raii"}
    /\ NDEBUG = FALSE
    /\ n_nodes_created = LastNodeId + 1
    /\ TREE_DEPTH = 1
    /\ N_CHILDREN \in 0..MaxFan
    /\ \E rootId \in SampleIds, ids \in [1..N_CHILDREN -> SampleIds] :
         IF strategy = "with_raii"
         THEN /\ heap = << [children |-> [i \in 1..N_CHILDREN |-> i + 1],
                             node_id |-> rootId] >>
                         \o [i \in 1..N_CHILDREN |->
                                [children |-> << >>, node_id |-> ids[i]]]
              /\ nodes = << >>
              /\ slots = << >>
              /\ InitFreshAllocator
         ELSE /\ heap = << >>
              /\ pages = << FirstPage >>
              /\ active_page_first_free_byte = SampleChildAddr(N_CHILDREN, N_CHILDREN + 1)
              /\ active_page_bytes_left =
                     FirstPage + PAGE_SIZE - SampleChildAddr(N_CHILDREN, N_CHILDREN + 1)
              /\ nodes = [a \in {ROOT_ADDR}
                               \cup {SampleChildAddr(N_CHILDREN, i) : i \in 1..N_CHILDREN} |->
                            IF a = ROOT_ADDR
                            THEN [children |-> [items |-> FirstPage, size |-> N_CHILDREN,
                                                max_size |-> N_CHILDREN],
                                  node_id |-> rootId]
                            ELSE [children |-> [items |-> a + SIZEOF_NODE, size |-> 0,
                                                max_size |-> N_CHILDREN],
                                  node_id |->
                                      ids[CHOOSE i \in 1..N_CHILDREN :
                                              SampleChildAddr(N_CHILDREN, i) = a]]]
              /\ slots = [a \in {FirstPage + (i - 1) * SIZEOF_PTR : i \in 1..N_CHILDREN} |->
                            SampleChildAddr(N_CHILDREN, (a - FirstPage) \div SIZEOF_PTR + 1)]

NextTraverse == Traverse

SpecTraverse == InitTraverse /\ [][NextTraverse]_vars

---------------------------------------------------------------------------
(* Claims about the allocator, checked under SpecAllocator *)

Disjoint(b1, b2) == b1.addr + b1.size <= b2.addr \/ b2.addr + b2.size <= b1.addr

InOnePage(b) ==
    \E i \in 1..Len(pages) : pages[i] <= b.addr /\ b.addr + b.size <= pages[i] + PAGE_SIZE

\* C1: every block returned for a request of at most MAX_SMALL_BLOCK_SIZE bytes
\* starts at a multiple of the requested alignment, lies inside one page of the
\* pool, and its byte range is disjoint from that of every block returned
\* earlier, blocks of abandoned pages included.
C1_BlocksAlignedAndDisjoint ==
    \A i \in 1..Len(blocks) :
        /\ blocks[i].addr % blocks[i].alignment = 0
        /\ InOnePage(blocks[i])
        /\ \A j \in 1..(i - 1) : Disjoint(blocks[j], blocks[i])

\* Three blocks over two pages, one of them served from a cursor that had to
\* be padded up to the alignment.
C1_Witness ==
    /\ Len(blocks) >= 3
    /\ Len(pages) >= 2
    /\ \E i \in 2..Len(blocks) :
           /\ blocks[i].alignment = ALIGNOF_NODE
           /\ blocks[i - 1].size = 1
           /\ blocks[i].addr > blocks[i - 1].addr + blocks[i - 1].size

EntryStateKept ==
    /\ Len(pages) = entry.n_pages
    /\ active_page_first_free_byte = entry.first_free
    /\ active_page_bytes_left = entry.bytes_left
    /\ Len(blocks) = entry.n_blocks

\* C2: a request above MAX_SMALL_BLOCK_SIZE ends in std::terminate without
\* returning a block, appending a page or touching the cursor fields; a request
\* of exactly MAX_SMALL_BLOCK_SIZE bytes is never aborted, and only requests of
\* at most MAX_SMALL_BLOCK_SIZE bytes ever return.
C2_LargeRequestAborts ==
    /\ terminated = "terminate" => (req.size > MAX_SMALL_BLOCK_SIZE /\ EntryStateKept)
    /\ (pc = "allocate_block" /\ req.size > MAX_SMALL_BLOCK_SIZE) => EntryStateKept
    /\ (pc = "allocate_block" /\ req.size = MAX_SMALL_BLOCK_SIZE) => terminated = "no"
    /\ \A i \in 1..Len(blocks) : blocks[i].size <= MAX_SMALL_BLOCK_SIZE

\* A 4096-byte block was served and a later larger request terminated.
C2_Witness ==
    /\ terminated = "terminate"
    /\ req.size = MAX_SMALL_BLOCK_SIZE + 1
    /\ \E i \in 1..Len(blocks) : blocks[i].size = MAX_SMALL_BLOCK_SIZE

\* C8: a call with size <= MAX_SMALL_BLOCK_SIZE, whatever the alignment, retries
\* at most once and appends at most one page, the retry on the fresh page
\* always succeeding.
C8_AtMostOneRetry ==
    pc = "allocate_block" /\ IsSmallBlock(req.size) => depth <= 1

LastPage == pages[Len(pages)]

CursorInvalidated == active_page_first_free_byte = NULL /\ active_page_bytes_left = 0

CursorInLastPage ==
    /\ Len(pages) > 0
    /\ LastPage <= active_page_first_free_byte
    /\ active_page_bytes_left >= 0
    /\ active_page_first_free_byte + active_page_bytes_left = LastPage + PAGE_SIZE

PagesOnlyAppended ==
    /\ Len(pages') >= Len(pages)
    /\ \A i \in 1..Len(pages) : pages'[i] = pages[i]

\* C10 as stated: between calls the cursor is invalidated or lies in the last
\* page with cursor + bytes_left at the page's end, and it is aligned for the
\* request it serves next.
C10_CursorAlignedForNextRequest ==
    /\ pc = "idle" => (CursorInvalidated \/ CursorInLastPage)
    /\ (pc = "allocate_block" /\ depth = 0 /\ active_page_first_free_byte # NULL)
           => active_page_first_free_byte % req.alignment = 0

\* C10 amended: between calls the cursor is invalidated or lies in the last
\* page with cursor + bytes_left at the page's end (nothing is promised about
\* its alignment: allocate_block pads it when it serves the next request), and
\* the pool only grows.
C10_CursorInvariant ==
    /\ [](pc # "allocate_block" => (CursorInvalidated \/ CursorInLastPage))
    /\ [][PagesOnlyAppended]_vars

\* Between calls, on the second page, with a cursor that is not 8-aligned.
C10_Witness ==
    /\ pc = "idle"
    /\ Len(pages) >= 2
    /\ active_page_first_free_byte # NULL
    /\ active_page_first_free_byte % ALIGNOF_NODE # 0
    /\ active_page_first_free_byte > LastPage

---------------------------------------------------------------------------
(* Claims about the Vector, checked under SpecVector *)

Prefix(seq, n) == [i \in 1..n |-> seq[i]]

\* C5: after n <= max_size pushes a walk from begin() to end() yields exactly
\* the n pushed values in push order, a second walk without a push in between
\* yields the same sequence, and items and max_size stay what the constructor
\* set them to.
C5_IterationYieldsPushes ==
    (pc = "vector_ready" /\ Len(pushed) <= vec.max_size) =>
        /\ Elements(vec, slots) = pushed
        /\ \A i \in 1..Len(iterated) :
               /\ Len(iterated[i].elements) = iterated[i].n_pushed
               /\ iterated[i].elements = Prefix(pushed, iterated[i].n_pushed)
        /\ \A i, j \in 1..Len(iterated) :
               iterated[i].n_pushed = iterated[j].n_pushed
                   => iterated[i].elements = iterated[j].elements
        /\ vec.items = blocks[1].addr
        /\ VectorBlockSize(vec.max_size) = blocks[1].size

\* A full vector of three elements walked twice without a push in between.
C5_Witness ==
    /\ pc = "vector_ready"
    /\ vec.max_size = 3
    /\ Len(pushed) = 3
    /\ pushed[1] # pushed[2]
    /\ Len(iterated) = 2
    /\ iterated[1].n_pushed = 3
    /\ iterated[2].n_pushed = 3

\* C6: the push after the max_size-th aborts before any store: the element
\* count never exceeds max_size and no word outside the backing block is
\* written.
C6_OverflowPushAborts ==
    /\ vec.size <= vec.max_size
    /\ Len(pushed) > vec.max_size => terminated = "assert"
    /\ \A a \in DOMAIN slots :
           vec.items <= a /\ a + SIZEOF_PTR <= vec.items + VectorBlockSize(vec.max_size)

---------------------------------------------------------------------------
(* Claims about the tree, checked under Spec (C3, C4, C9) and SpecTraverse (C7) *)

AllNodes == IF strategy = "without_raii" THEN DOMAIN nodes ELSE DOMAIN heap

ChildSet(n) == { Children(n)[i] : i \in 1..Len(Children(n)) }

RECURSIVE Level(_)
Level(j) == IF j = 0 THEN {Root} ELSE UNION { ChildSet(n) : n \in Level(j - 1) }

RECURSIVE SubtreeIds(_)
SubtreeIds(n) == {NodeId(n)} \cup UNION { SubtreeIds(c) : c \in ChildSet(n) }

\* ids of the proper descendants of n
Below(n) == UNION { SubtreeIds(c) : c \in ChildSet(n) }

RECURSIVE SumOfTraverse(_, _)
SumOfTraverse(c, i) == IF i > Len(c) THEN 0 ELSE traverse(c[i]) + SumOfTraverse(c, i + 1)

\* C3: after build_tree the number of nodes created is 1 + k + ... + k^d, every
\* node above depth d has exactly k children and the nodes at depth d none.
C3_FullTreeNodeCount ==
    pc = "built" =>
        /\ n_nodes_created = FullTreeSize(N_CHILDREN, TREE_DEPTH)
        /\ \A j \in 0..(TREE_DEPTH - 1) : \A n \in Level(j) : Len(Children(n)) = N_CHILDREN
        /\ \A n \in Level(TREE_DEPTH) : Len(Children(n)) = 0

\* C4: the two test<>() runs of main return the same checksum and the same
\* node count, and main never reaches std::terminate.
C4_StrategiesAgree ==
    /\ terminated = "no"
    /\ Len(reports) = 2 =>
           /\ reports[1].strategy = "without_raii"
           /\ reports[2].strategy = "with_raii"
           /\ reports[1].checksum = reports[2].checksum
           /\ reports[1].n_nodes_created = reports[2].n_nodes_created

\* main has compared the reports of two trees of 3 children per node.
C4_Witness ==
    /\ pc = "done"
    /\ N_CHILDREN = 3
    /\ TREE_DEPTH >= 2
    /\ reports[1].n_nodes_created >= 40
    /\ reports[1].checksum > 0

TraverseSpecified(n) ==
    /\ traverse(n) = (NodeId(n) + SumOfTraverse(Children(n), 1)) % CHECKSUM_MOD
    /\ traverse(n) \in 0..(CHECKSUM_MOD - 1)

C9_ConstructionOrder ==
    pc = "built" =>
        /\ NodeId(Root) = 0
        /\ Cardinality(AllNodes) = n_nodes_created
        /\ { NodeId(n) : n \in AllNodes } = 0..(n_nodes_created - 1)
        /\ \A n \in AllNodes :
               LET c == Children(n)
               IN  /\ \A i \in 1..(Len(c) - 1) : NodeId(c[i + 1]) = NodeId(c[i]) + 1
                   /\ \A i \in 1..Len(c) : NodeId(c[i]) > NodeId(n)
                   /\ \A i \in 1..Len(c) : \A x \in Below(c[i]) : x > NodeId(c[Len(c)])
                   /\ \A i \in 1..(Len(c) - 1) :
                          \A x \in Below(c[i]), y \in Below(c[i + 1]) : x < y
        /\ (N_CHILDREN = 2 /\ TREE_DEPTH = 2) =>
               /\ n_nodes_created = 7
               /\ LET c == Children(Root)
                  IN  /\ << NodeId(c[1]), NodeId(c[2]) >> = << 1, 2 >>
                      /\ [i \in 1..2 |-> NodeId(Children(c[1])[i])] = << 3, 4 >>
                      /\ [i \in 1..2 |-> NodeId(Children(c[2])[i])] = << 5, 6 >>
               /\ traverse(Root) = 21

\* The arena tree with 2 children per node and depth 2 is built.
C9_Witness ==
    /\ pc = "built"
    /\ strategy = "without_raii"
    /\ N_CHILDREN = 2
    /\ TREE_DEPTH = 2
    /\ n_nodes_created = 7

===========================================================================
